---- MODULE Spec2Model ----
(***************************************************************************)
(* Model of download_refseq_cds_gff.py: one run of main() for one family.  *)
(* The external datasets tool and the filesystem are the environment: each *)
(* subprocess call ends in one of the outcomes subprocess.run can produce, *)
(* the downloaded archive holds any small set of member paths, and a move  *)
(* or delete may fail with an OSError.                                     *)
(***************************************************************************)
EXTENDS Integers, Sequences, FiniteSets, TLC

VARIABLES
    pc,                 \* position in main()
    family,             \* args.family
    no_cds,             \* args.no_cds
    no_gff,             \* args.no_gff
    calls,              \* history: tool invocations and the extractor call, in order
    cmds,               \* history: the --include value of each tool command line
    exit_code,          \* process exit status, -1 while running
    exc,                \* the uncaught exception that ended the process, or "None"
    probe,              \* history: what the --preview subprocess produced
    available_species,  \* download_family_data: available_species
    zip_filename,       \* download_family_data: zip_filename ("None" for None)
    success_count,      \* download_family_data: success_count
    success,            \* main: success ("None" until download_family_data returns)
    zip_exists,         \* the archive file exists in the working directory
    archive,            \* member paths of the archive the tool wrote
    temp_exists,        \* the scratch directory temp_{family} exists
    temp,               \* nodes below the scratch directory
    cds_dir,            \* nodes below {output_dir}/cds_files
    gff_dir,            \* nodes below {output_dir}/gff_files
    cds_files,          \* extract_and_organize_files: cds_files
    gff_files,          \* extract_and_organize_files: gff_files
    idx,                \* position of the running for loop in its list
    total_files,        \* extract_and_organize_files: total_files
    extract_path,       \* history: how extract_and_organize_files returned
    extract_result,     \* what extract_and_organize_files returned
    tool_available,     \* what check_datasets_tool returned ("None" until it returns)
    os_fault            \* history: the extractor met an unreadable archive or a failing move or delete

vars == <<pc, family, no_cds, no_gff, calls, cmds, exit_code, exc, probe,
          available_species, zip_filename, success_count, success, zip_exists,
          archive, temp_exists, temp, cds_dir, gff_dir, cds_files, gff_files,
          idx, total_files, extract_path, extract_result, tool_available, os_fault>>

----------------------------------------------------------------------------
(* Bounds and input sets *)

\* at most this many members in a downloaded archive
MaxFiles == 3

Families == {"gobiidae"}

\* member paths an archive may hold: matching and non-matching file names at
\* several depths, equal parent names in different places, and directories
\* whose own name matches a scanned pattern
ArchivePaths == {
    <<"speciesA", "cds_from_genomic.fna">>,
    <<"speciesB", "sub", "annotation.gff">>,
    <<"sub", "speciesA", "cds_from_genomic.fna">>,
    <<"speciesA", "genomic.gff">>,
    <<"sub", "speciesA", "annotation.gff">>,
    <<"speciesA", "notes.txt">>,
    <<"genomic.gff">>,
    <<"speciesA", "d.gff", "notes.txt">>,
    <<"speciesA", "d.gff", "inner.gff">>,
    <<"d.gff", "cds_from_genomic.fna">> }

Archives == {a \in SUBSET ArchivePaths : Cardinality(a) <= MaxFiles}

\* standard output of the --preview call: the text, and what json.loads makes of it
\*   kind "invalid": not JSON;  "list": a JSON array;  "object": a JSON object,
\*   has: it has the key record_count;  rc_type/rc: that value
Stdouts == {
    [text |-> "", kind |-> "invalid", has |-> FALSE, rc_type |-> "none", rc |-> 0],
    [text |-> "{\"total\": 3}", kind |-> "object", has |-> FALSE, rc_type |-> "none", rc |-> 0],
    [text |-> "{\"note\": \"record_count\"}", kind |-> "object", has |-> FALSE, rc_type |-> "none", rc |-> 0],
    [text |-> "{\"record_count\": 0}", kind |-> "object", has |-> TRUE, rc_type |-> "int", rc |-> 0],
    [text |-> "{\"record_count\": 2}", kind |-> "object", has |-> TRUE, rc_type |-> "int", rc |-> 2],
    [text |-> "{\"record_count\": \"2\"}", kind |-> "object", has |-> TRUE, rc_type |-> "str", rc |-> 2],
    [text |-> "[\"record_count\"]", kind |-> "list", has |-> FALSE, rc_type |-> "none", rc |-> 0],
    [text |-> "record_count: 2", kind |-> "invalid", has |-> FALSE, rc_type |-> "none", rc |-> 0] }

\* how subprocess.run(..., check=True) can end
\*   "ok": exit status 0;  "nonzero": CalledProcessError;
\*   "notfound": FileNotFoundError;  "oserror": another OSError (PermissionError)
RunOutcomes == {"ok", "nonzero", "notfound", "oserror"}

NoStdout == [text |-> "", kind |-> "invalid", has |-> FALSE, rc_type |-> "none", rc |-> 0]

NoProbe == [run |-> "none", stdout |-> NoStdout]

\* output files an earlier run for another family may have left
StaleCds == {[path |-> <<"speciesA_apogonidae.fna">>, dir |-> FALSE, data |-> <<"earlier run">>]}

StaleGff == {[path |-> <<"speciesA_apogonidae.gff">>, dir |-> FALSE, data |-> <<"earlier run">>]}

----------------------------------------------------------------------------
(* Strings and paths *)

EndsWith(s, t) ==
    Len(s) >= Len(t) /\ SubSeq(s, Len(s) - Len(t) + 1, Len(s)) = t

\* Python's `t in s` on strings
Contains(s, t) ==
    \E k \in 1..(Len(s) - Len(t) + 1) : SubSeq(s, k, k + Len(t) - 1) = t

IsPrefix(p, q) ==
    Len(p) <= Len(q) /\ SubSeq(q, 1, Len(p)) = p

Parent(path) ==
    SubSeq(path, 1, Len(path) - 1)

Name(path) ==
    path[Len(path)]

\* f"temp_{family}"
ScratchName(fam) ==
    "temp_" \o fam

\* f"refseq_{family}_chromosome_data.zip"
ZipName(fam) ==
    "refseq_" \o fam \o "_chromosome_data.zip"

\* cds_file.parent.name, for a path below the scratch directory
ParentName(path, fam) ==
    IF Len(path) = 1 THEN ScratchName(fam) ELSE path[Len(path) - 1]

\* f"{species_name}_{family}.fna" / f"{species_name}_{family}.gff"
NewName(species_name, fam, ext) ==
    species_name \o "_" \o fam \o ext

\* the match of one path component against an rglob pattern (fnmatch): a
\* pattern starting with * matches any name ending in the rest
fnmatch(name, pat) ==
    IF Len(pat) > 0 /\ SubSeq(pat, 1, 1) = "*"
    THEN EndsWith(name, SubSeq(pat, 2, Len(pat)))
    ELSE name = pat

----------------------------------------------------------------------------
(* Directory trees: a set of nodes, each a file or a directory *)

FileNode(p, d) == [path |-> p, dir |-> FALSE, data |-> d]

DirNode(p) == [path |-> p, dir |-> TRUE, data |-> <<>>]

\* what ZipFile.extractall writes below its target directory
Extracted(members) ==
    {FileNode(p, p) : p \in members}
    \cup UNION {{DirNode(SubSeq(p, 1, k)) : k \in 1..(Len(p) - 1)} : p \in members}

Exists(tree, p) == \E n \in tree : n.path = p

IsDir(tree, p) == \E n \in tree : n.path = p /\ n.dir

Subtree(tree, p) == {n \in tree : IsPrefix(p, n.path)}

\* the nodes of Subtree(tree, p) as they are named once p is renamed to q
Renamed(tree, p, q) ==
    {[n EXCEPT !.path = q \o SubSeq(n.path, Len(p) + 1, Len(n.path))] : n \in Subtree(tree, p)}

\* temp_dir.rglob(pat): every node, file or directory, whose name matches
rglob(tree, pat) ==
    {n.path : n \in {m \in tree : fnmatch(Name(m.path), pat)}}

RECURSIVE Perms(_)
Perms(S) ==
    IF S = {} THEN {<<>>}
    ELSE UNION {{<<x>> \o p : p \in Perms(S \ {x})} : x \in S}

\* the orders rglob can yield: directories are walked top-down, each directory
\* yields its own matching children before anything deeper, and everything
\* below one directory comes in one block
RglobOrder(s) ==
    /\ \A i, j \in 1..Len(s) :
         (i < j) => ~(Parent(s[j]) # Parent(s[i]) /\ IsPrefix(Parent(s[j]), Parent(s[i])))
    /\ \A i, k \in 1..Len(s) : \A d \in 1..Len(Parent(s[i])) :
         (i < k /\ IsPrefix(SubSeq(s[i], 1, d), Parent(s[k])))
            => \A j \in i..k : IsPrefix(SubSeq(s[i], 1, d), Parent(s[j]))

\* list(temp_dir.rglob(pat))
ScanOrders(tree, pat) ==
    {s \in Perms(rglob(tree, pat)) : RglobOrder(s)}

\* shutil.move(src, out_dir / new_name): src a path below the scratch directory.
\* An existing directory at the destination receives src under its own name; an
\* existing file is replaced by a file; everything else that exists is an error.
move(tree, out, src, new_name) ==
    LET dst  == <<new_name>>
        real == IF IsDir(out, dst) THEN <<new_name, Name(src)>> ELSE dst
        bad  == \/ ~Exists(tree, src)
                \/ IsDir(out, dst) /\ Exists(out, real)
                \/ ~IsDir(out, dst) /\ Exists(out, dst) /\ IsDir(tree, src)
    IN  IF bad
        THEN [raised |-> TRUE, tree |-> tree, out |-> out]
        ELSE [raised |-> FALSE,
              tree   |-> tree \ Subtree(tree, src),
              out    |-> (out \ Subtree(out, real)) \cup Renamed(tree, src, real)]

----------------------------------------------------------------------------
(* get_available_species: the value computed from the subprocess result *)

\* json.loads(result.stdout) raises JSONDecodeError
JsonRaises(out) == out.kind = "invalid"

\* the comparison record_count > 0 written as record_count >= 0
available_accepts_zero(run, out, fam) ==
    IF run = "nonzero" THEN [raises |-> "None", value |-> <<>>]
    ELSE IF run # "ok" THEN [raises |-> "OSError", value |-> <<>>]
    ELSE IF ~Contains(out.text, "record_count") THEN [raises |-> "None", value |-> <<>>]
    ELSE IF JsonRaises(out) THEN [raises |-> "JSONDecodeError", value |-> <<>>]
    ELSE IF out.kind # "object" THEN [raises |-> "AttributeError", value |-> <<>>]
    ELSE IF out.has /\ out.rc_type # "int" THEN [raises |-> "TypeError", value |-> <<>>]
    ELSE [raises |-> "None", value |-> <<fam>>]

\* [raises |-> an exception leaves the method, value |-> the list returned]
available(run, out, fam) ==
    IF run = "nonzero" THEN [raises |-> "None", value |-> <<>>]
    ELSE IF run # "ok" THEN [raises |-> "OSError", value |-> <<>>]
    ELSE IF ~Contains(out.text, "record_count") THEN [raises |-> "None", value |-> <<>>]
    ELSE IF JsonRaises(out) THEN [raises |-> "JSONDecodeError", value |-> <<>>]
    ELSE IF out.kind # "object" THEN [raises |-> "AttributeError", value |-> <<>>]
    ELSE IF out.has /\ out.rc_type # "int" THEN [raises |-> "TypeError", value |-> <<>>]
    ELSE IF out.has /\ out.rc > 0 THEN [raises |-> "None", value |-> <<fam>>]
    ELSE [raises |-> "None", value |-> <<>>]

\* include_param of download_genome_data
IncludeParam(include_cds, include_gff) ==
    IF include_cds /\ include_gff THEN "cds,gff3"
    ELSE IF include_cds THEN "cds"
    ELSE IF include_gff THEN "gff3"
    ELSE "cds,gff3"

\* main: if not include_cds and not include_gff
NothingToDownload_never(include_cds, include_gff) ==
    FALSE

NothingToDownload(include_cds, include_gff) ==
    ~include_cds /\ ~include_gff

\* main: the exit status after download_family_data returned
ExitStatus_always_zero(ok) ==
    0

ExitStatus(ok) ==
    IF ok = "True" THEN 0 ELSE 1

\* download_family_data: where the loop body goes with the name (or None)
\* download_genome_data returned
AfterDownload_retry(name) ==
    IF name # "None" THEN "extract" ELSE "download"

AfterDownload(name) ==
    IF name # "None" THEN "extract" ELSE "tally"

\* extract_and_organize_files: os.path.exists(zip_filename)
ArchiveFound_unchecked(on_disk) ==
    TRUE

ArchiveFound(on_disk) ==
    on_disk

\* shutil.rmtree(temp_dir): FileNotFoundError when the directory is not there
rmtree_keeps(there, tree) ==
    [raised |-> FALSE, there |-> there, tree |-> tree]

rmtree(there, tree) ==
    IF there
    THEN [raised |-> FALSE, there |-> FALSE, tree |-> {}]
    ELSE [raised |-> TRUE, there |-> there, tree |-> tree]

----------------------------------------------------------------------------
(* The program *)

Init ==
    /\ pc = "parse_args"
    /\ family \in Families
    /\ no_cds \in BOOLEAN
    /\ no_gff \in BOOLEAN
    /\ calls = <<>>
    /\ cmds = <<>>
    /\ exit_code = -1
    /\ exc = "None"
    /\ probe = NoProbe
    /\ available_species = <<>>
    /\ zip_filename = "None"
    /\ success_count = 0
    /\ success = "None"
    /\ zip_exists = FALSE
    /\ archive = {}
    /\ temp_exists \in BOOLEAN
    /\ temp = {}
    /\ \E stale \in BOOLEAN :
         /\ cds_dir = (IF stale THEN StaleCds ELSE {})
         /\ gff_dir = (IF stale THEN StaleGff ELSE {})
    /\ cds_files = <<>>
    /\ gff_files = <<>>
    /\ idx = 0
    /\ total_files = 0
    /\ extract_path = "none"
    /\ extract_result = "None"
    /\ tool_available = "None"
    /\ os_fault = FALSE

\* an exception nothing catches: traceback, exit status 1
Uncaught(e) ==
    /\ exc' = e
    /\ exit_code' = 1
    /\ pc' = "done"

\* sys.exit(1)
SysExit1 ==
    /\ exit_code' = 1
    /\ pc' = "done"
    /\ exc' = exc

\* main: parse_args and RefSeqDataDownloader(...), whose mkdir calls may fail
main_init ==
    /\ pc = "parse_args"
    /\ \E mkdir_ok \in BOOLEAN :
         IF mkdir_ok
         THEN pc' = "check_tool" /\ UNCHANGED <<exit_code, exc>>
         ELSE Uncaught("OSError")
    /\ UNCHANGED <<family, no_cds, no_gff, tool_available, os_fault, calls, cmds, probe, available_species,
                   zip_filename, success_count, success, zip_exists, archive,
                   temp_exists, temp, cds_dir, gff_dir, cds_files, gff_files, idx,
                   total_files, extract_path, extract_result>>

\* main: if not downloader.check_datasets_tool(): sys.exit(1)
check_datasets_tool ==
    /\ pc = "check_tool"
    /\ calls' = Append(calls, "version")
    /\ cmds' = Append(cmds, "")
    /\ \E run \in RunOutcomes :
         IF run = "ok"
         THEN /\ tool_available' = "True"
              /\ pc' = "check_flags"
              /\ UNCHANGED <<exit_code, exc>>
         ELSE IF run \in {"nonzero", "notfound"}
         THEN tool_available' = "False" /\ SysExit1
         ELSE tool_available' = tool_available /\ Uncaught("OSError")
    /\ UNCHANGED <<family, no_cds, no_gff, os_fault, probe, available_species,
                   zip_filename, success_count, success, zip_exists, archive,
                   temp_exists, temp, cds_dir, gff_dir, cds_files, gff_files, idx,
                   total_files, extract_path, extract_result>>

\* main: if not include_cds and not include_gff: sys.exit(1)
main_check_flags ==
    /\ pc = "check_flags"
    /\ IF NothingToDownload(~no_cds, ~no_gff)
       THEN SysExit1
       ELSE pc' = "probe" /\ UNCHANGED <<exit_code, exc>>
    /\ UNCHANGED <<family, no_cds, no_gff, tool_available, os_fault, calls, cmds, probe, available_species,
                   zip_filename, success_count, success, zip_exists, archive,
                   temp_exists, temp, cds_dir, gff_dir, cds_files, gff_files, idx,
                   total_files, extract_path, extract_result>>

\* download_family_data: available_species = self.get_available_species(family);
\* if not available_species: return False
get_available_species ==
    /\ pc = "probe"
    /\ calls' = Append(calls, "preview")
    /\ cmds' = Append(cmds, "cds,gff3")
    /\ \E run \in RunOutcomes : \E out \in Stdouts :
         LET r == available(run, out, family)
         IN  /\ run # "ok" => out = NoStdout
             /\ probe' = [run |-> run, stdout |-> out]
             /\ available_species' = r.value
             /\ IF r.raises # "None"
                THEN Uncaught(r.raises) /\ success' = success
                ELSE IF r.value = <<>>
                THEN pc' = "main_result" /\ success' = "False"
                     /\ UNCHANGED <<exit_code, exc>>
                ELSE pc' = "download" /\ success' = success
                     /\ UNCHANGED <<exit_code, exc>>
    /\ UNCHANGED <<family, no_cds, no_gff, tool_available, os_fault, zip_filename, success_count,
                   zip_exists, archive, temp_exists, temp, cds_dir, gff_dir,
                   cds_files, gff_files, idx, total_files, extract_path,
                   extract_result>>

\* download_family_data: zip_filename = self.download_genome_data(taxon, ...);
\* the tool writes the archive (or, with exit status 0, nothing)
download_genome_data ==
    /\ pc = "download"
    /\ calls' = Append(calls, "download")
    /\ cmds' = Append(cmds, IncludeParam(~no_cds, ~no_gff))
    /\ \E run \in RunOutcomes :
         IF run = "ok"
         THEN /\ zip_filename' = ZipName(family)
              /\ \E written \in BOOLEAN : \E a \in Archives :
                   /\ zip_exists' = written
                   /\ archive' = IF written THEN a ELSE {}
                   /\ ~written => a = {}
              /\ pc' = AfterDownload(ZipName(family))
              /\ UNCHANGED <<exit_code, exc>>
         ELSE IF run = "nonzero"
         THEN /\ zip_filename' = "None"
              /\ pc' = AfterDownload("None")
              /\ UNCHANGED <<zip_exists, archive, exit_code, exc>>
         ELSE /\ Uncaught("OSError")
              /\ UNCHANGED <<zip_filename, zip_exists, archive>>
    /\ UNCHANGED <<family, no_cds, no_gff, tool_available, os_fault, probe, available_species,
                   success_count, success, temp_exists, temp, cds_dir, gff_dir,
                   cds_files, gff_files, idx, total_files, extract_path,
                   extract_result>>

\* the handler re-raising instead of returning
Caught_reraise ==
    /\ extract_path' = "raised"
    /\ extract_result' = extract_result
    /\ pc' = "done"

\* except Exception as e: ... return False
Caught ==
    /\ extract_path' = "raised"
    /\ extract_result' = "False"
    /\ pc' = "tally"

\* extract_and_organize_files: if not os.path.exists(zip_filename): return False
extract_exists ==
    /\ pc = "extract"
    /\ calls' = Append(calls, "extract")
    /\ IF ~ArchiveFound(zip_exists)
       THEN /\ extract_path' = "missing"
            /\ extract_result' = "False"
            /\ pc' = "tally"
       ELSE /\ pc' = "extractall"
            /\ UNCHANGED <<extract_path, extract_result>>
    /\ UNCHANGED <<family, no_cds, no_gff, tool_available, os_fault, cmds, exit_code, exc, probe,
                   available_species, zip_filename, success_count, success,
                   zip_exists, archive, temp_exists, temp, cds_dir, gff_dir,
                   cds_files, gff_files, idx, total_files>>

\* with zipfile.ZipFile(...) as zip_ref: zip_ref.extractall(f"temp_{family}")
\* extractall creates the target only as the parent of a member it writes
extract_extractall ==
    /\ pc = "extractall"
    /\ \E readable \in BOOLEAN :
         /\ os_fault' = (os_fault \/ ~readable)
         /\ IF readable /\ zip_exists
            THEN /\ temp' = temp \cup Extracted(archive)
                 /\ temp_exists' = (temp_exists \/ archive # {})
                 /\ pc' = "scan_cds"
                 /\ UNCHANGED <<extract_path, extract_result>>
            ELSE Caught /\ UNCHANGED <<temp, temp_exists>>
    /\ UNCHANGED <<family, no_cds, no_gff, tool_available, calls, cmds, exit_code, exc, probe,
                   available_species, zip_filename, success_count, success,
                   zip_exists, archive, cds_dir, gff_dir, cds_files, gff_files,
                   idx, total_files>>

\* cds_files = list(temp_dir.rglob("cds_from_genomic.fna"))
extract_scan_cds ==
    /\ pc = "scan_cds"
    /\ \E s \in ScanOrders(temp, "cds_from_genomic.fna") : cds_files' = s
    /\ idx' = 1
    /\ pc' = "move_cds"
    /\ UNCHANGED <<family, no_cds, no_gff, tool_available, os_fault, calls, cmds, exit_code, exc, probe,
                   available_species, zip_filename, success_count, success,
                   zip_exists, archive, temp_exists, temp, cds_dir, gff_dir,
                   gff_files, total_files, extract_path, extract_result>>

\* for cds_file in cds_files: shutil.move(str(cds_file), str(self.cds_dir / new_name))
extract_move_cds ==
    /\ pc = "move_cds"
    /\ IF idx > Len(cds_files)
       THEN /\ pc' = "scan_gff"
            /\ UNCHANGED <<temp, cds_dir, idx, extract_path, extract_result, os_fault>>
       ELSE \E os_ok \in BOOLEAN :
            LET species_name == ParentName(cds_files[idx], family)
                new_name == NewName(species_name, family, ".fna")
                m == move(temp, cds_dir, cds_files[idx], new_name)
            IN  /\ os_fault' = (os_fault \/ ~os_ok)
                /\ IF os_ok /\ ~m.raised
                   THEN /\ temp' = m.tree
                        /\ cds_dir' = m.out
                        /\ idx' = idx + 1
                        /\ pc' = "move_cds"
                        /\ UNCHANGED <<extract_path, extract_result>>
                   ELSE Caught /\ UNCHANGED <<temp, cds_dir, idx>>
    /\ UNCHANGED <<family, no_cds, no_gff, tool_available, calls, cmds, exit_code, exc, probe,
                   available_species, zip_filename, success_count, success,
                   zip_exists, archive, temp_exists, gff_dir, cds_files,
                   gff_files, total_files>>

\* gff_files = list(temp_dir.rglob("*.gff"))
extract_scan_gff ==
    /\ pc = "scan_gff"
    /\ \E s \in ScanOrders(temp, "*.gff") : gff_files' = s
    /\ idx' = 1
    /\ pc' = "move_gff"
    /\ UNCHANGED <<family, no_cds, no_gff, tool_available, os_fault, calls, cmds, exit_code, exc, probe,
                   available_species, zip_filename, success_count, success,
                   zip_exists, archive, temp_exists, temp, cds_dir, gff_dir,
                   cds_files, total_files, extract_path, extract_result>>

\* for gff_file in gff_files: shutil.move(str(gff_file), str(self.gff_dir / new_name));
\* then total_files = len(cds_files) + len(gff_files)
extract_move_gff ==
    /\ pc = "move_gff"
    /\ IF idx > Len(gff_files)
       THEN /\ total_files' = Len(cds_files) + Len(gff_files)
            /\ pc' = "rmtree"
            /\ UNCHANGED <<temp, gff_dir, idx, extract_path, extract_result, os_fault>>
       ELSE \E os_ok \in BOOLEAN :
            LET species_name == ParentName(gff_files[idx], family)
                new_name == NewName(species_name, family, ".gff")
                m == move(temp, gff_dir, gff_files[idx], new_name)
            IN  /\ os_fault' = (os_fault \/ ~os_ok)
                /\ IF os_ok /\ ~m.raised
                   THEN /\ temp' = m.tree
                        /\ gff_dir' = m.out
                        /\ idx' = idx + 1
                        /\ pc' = "move_gff"
                        /\ UNCHANGED <<total_files, extract_path, extract_result>>
                   ELSE Caught /\ UNCHANGED <<temp, gff_dir, idx, total_files>>
    /\ UNCHANGED <<family, no_cds, no_gff, tool_available, calls, cmds, exit_code, exc, probe,
                   available_species, zip_filename, success_count, success,
                   zip_exists, archive, temp_exists, cds_dir, cds_files,
                   gff_files>>

\* shutil.rmtree(temp_dir)
extract_rmtree ==
    /\ pc = "rmtree"
    /\ \E os_ok \in BOOLEAN :
         /\ os_fault' = (os_fault \/ ~os_ok)
         /\ IF os_ok /\ ~rmtree(temp_exists, temp).raised
            THEN /\ temp' = rmtree(temp_exists, temp).tree
                 /\ temp_exists' = rmtree(temp_exists, temp).there
                 /\ pc' = "remove"
                 /\ UNCHANGED <<extract_path, extract_result>>
            ELSE Caught /\ UNCHANGED <<temp, temp_exists>>
    /\ UNCHANGED <<family, no_cds, no_gff, tool_available, calls, cmds, exit_code, exc, probe,
                   available_species, zip_filename, success_count, success,
                   zip_exists, archive, cds_dir, gff_dir, cds_files, gff_files,
                   idx, total_files>>

\* os.remove(zip_filename); return total_files > 0
extract_remove ==
    /\ pc = "remove"
    /\ \E os_ok \in BOOLEAN :
         /\ os_fault' = (os_fault \/ ~os_ok)
         /\ IF os_ok
            THEN /\ zip_exists' = FALSE
                 /\ extract_path' = "completed"
                 /\ extract_result' = IF total_files > 0 THEN "True" ELSE "False"
                 /\ pc' = "tally"
            ELSE Caught /\ UNCHANGED zip_exists
    /\ UNCHANGED <<family, no_cds, no_gff, tool_available, calls, cmds, exit_code, exc, probe,
                   available_species, zip_filename, success_count, success,
                   archive, temp_exists, temp, cds_dir, gff_dir, cds_files,
                   gff_files, idx, total_files>>

\* download_family_data: success_count += 1 on a true result of the extractor;
\* return success_count > 0
download_family_data ==
    /\ pc = "tally"
    /\ LET n == IF zip_filename # "None" /\ extract_result = "True"
                THEN success_count + 1 ELSE success_count
       IN  /\ success_count' = n
           /\ success' = IF n > 0 THEN "True" ELSE "False"
    /\ pc' = "main_result"
    /\ UNCHANGED <<family, no_cds, no_gff, tool_available, os_fault, calls, cmds, exit_code, exc, probe,
                   available_species, zip_filename, zip_exists, archive,
                   temp_exists, temp, cds_dir, gff_dir, cds_files, gff_files,
                   idx, total_files, extract_path, extract_result>>

\* main: if success: ... else: sys.exit(1)
main_result ==
    /\ pc = "main_result"
    /\ exit_code' = ExitStatus(success)
    /\ pc' = "done"
    /\ UNCHANGED <<family, no_cds, no_gff, tool_available, os_fault, calls, cmds, exc, probe,
                   available_species, zip_filename, success_count, success,
                   zip_exists, archive, temp_exists, temp, cds_dir, gff_dir,
                   cds_files, gff_files, idx, total_files, extract_path,
                   extract_result>>

Next ==
    \/ main_init
    \/ check_datasets_tool
    \/ main_check_flags
    \/ get_available_species
    \/ download_genome_data
    \/ extract_exists
    \/ extract_extractall
    \/ extract_scan_cds
    \/ extract_move_cds
    \/ extract_scan_gff
    \/ extract_move_gff
    \/ extract_rmtree
    \/ extract_remove
    \/ download_family_data
    \/ main_result

Spec == Init /\ [][Next]_vars

----------------------------------------------------------------------------
(* Vocabulary of the properties *)

\* the --preview call gave no records: a non-zero exit, output without the
\* marker, or a JSON object whose record count is (or defaults to) zero
ProbeFoundNothing ==
    \/ probe.run = "nonzero"
    \/ /\ probe.run = "ok"
       /\ \/ ~Contains(probe.stdout.text, "record_count")
          \/ /\ probe.stdout.kind = "object"
             /\ ~probe.stdout.has \/ (probe.stdout.rc_type = "int" /\ probe.stdout.rc = 0)

\* the --preview call failed or printed something that is not a JSON object
\* with a numeric record_count
ProbeFailedOrMalformed ==
    \/ probe.run \in {"nonzero", "notfound", "oserror"}
    \/ /\ probe.run = "ok"
       /\ ~(probe.stdout.kind = "object" /\ probe.stdout.has /\ probe.stdout.rc_type = "int")

BothDisabled == no_cds /\ no_gff

Invoked(step) == \E k \in 1..Len(calls) : calls[k] = step

\* the one taxon was downloaded and extract_and_organize_files returned True
TaxonProcessed ==
    Invoked("download") /\ zip_filename # "None" /\ extract_result = "True"

\* the download subprocess ended with a non-zero exit
DownloadFailed ==
    Invoked("download") /\ zip_filename = "None" /\ exc = "None"

ExtractorReturned == extract_path \in {"missing", "raised", "completed"}

\* the regular files of the extracted tree whose name matches pat
MatchedFiles(pat) == {p \in archive : fnmatch(Name(p), pat)}

Dest(p, ext) == NewName(ParentName(p, family), family, ext)

\* the files matching pat that resolve to the destination name of p
Rivals(p, pat, ext) == {q \in MatchedFiles(pat) : Dest(q, ext) = Dest(p, ext)}

Collision(pat, ext) ==
    \E p \in MatchedFiles(pat) : Cardinality(Rivals(p, pat, ext)) > 1

Pos(list, p) ==
    IF \E k \in 1..Len(list) : list[k] = p
    THEN CHOOSE k \in 1..Len(list) : list[k] = p
    ELSE 0

\* the member of S that comes last in list
LastIn(list, S) ==
    CHOOSE p \in S : \A q \in S : Pos(list, q) <= Pos(list, p)

\* what the output directory holds at or below the entry called name
At(out, name) == {n \in out : n.path[1] = name}

AddedCds == cds_dir \ StaleCds

AddedGff == gff_dir \ StaleGff

\* every file matching pat is the file at its destination name
AllPlaced(pat, ext, out) ==
    \A p \in MatchedFiles(pat) : FileNode(<<Dest(p, ext)>>, p) \in out

\* in every group of colliding files the last one scanned is the only survivor
LastWins(pat, ext, out, list) ==
    \A p \in MatchedFiles(pat) :
        Cardinality(Rivals(p, pat, ext)) > 1 =>
            At(out, Dest(p, ext)) =
                {FileNode(<<Dest(p, ext)>>, LastIn(list, Rivals(p, pat, ext)))}

----------------------------------------------------------------------------
(* Properties *)

\* C1: when the availability probe yields a record count of zero, no marker or
\* a non-zero exit, download_family_data returns False, and neither the
\* download nor the extractor is ever invoked in that run.
C1_NoRecordsNoDownload ==
    ProbeFoundNothing =>
        /\ success = "False"
        /\ available_species = <<>>
        /\ ~Invoked("download")
        /\ ~Invoked("extract")
        /\ pc \in {"main_result", "done"}

C1_Witness ==
    /\ pc = "done"
    /\ probe.run = "ok"
    /\ probe.stdout.has
    /\ probe.stdout.rc = 0
    /\ ProbeFoundNothing

\* C2 as stated: with --no-cds and --no-gff the program exits with non-zero
\* status and no invocation of the datasets tool, the --version check
\* included, has occurred before the exit.
C2_ExitBeforeAnyTool ==
    (BothDisabled /\ pc = "done") => (exit_code # 0 /\ calls = <<>>)

\* C2 amended: with --no-cds and --no-gff the program exits with non-zero
\* status, and the only tool invocation that can precede the exit is the one
\* --version check; the preview, the download and the extractor never run.
C2_ExitBeforeProbe ==
    BothDisabled =>
        /\ calls \in {<<>>, <<"version">>}
        /\ pc \in {"parse_args", "check_tool", "check_flags", "done"}
        /\ pc = "done" => exit_code # 0
        /\ ~zip_exists /\ temp = {} /\ AddedCds = {} /\ AddedGff = {}

C2_Witness ==
    /\ BothDisabled
    /\ pc = "done"
    /\ tool_available = "True"
    /\ calls = <<"version">>
    /\ exit_code = 1

\* C3: the exit code of main is 0 if and only if the taxon was processed
\* successfully (downloaded, and the extractor returned True); it is 1 when the
\* tool is unreachable, when both content kinds are disabled, when the probe
\* finds no records, and when the taxon fails download or extraction.
C3_ExitCode ==
    pc = "done" =>
        /\ exit_code = 0 <=> TaxonProcessed
        /\ exit_code \in {0, 1}
        /\ tool_available = "False" => exit_code = 1
        /\ BothDisabled => exit_code = 1
        /\ ProbeFoundNothing => exit_code = 1
        /\ DownloadFailed => exit_code = 1
        /\ (ExtractorReturned /\ extract_result = "False") => exit_code = 1

C3_Witness ==
    /\ pc = "done"
    /\ exit_code = 0
    /\ TaxonProcessed

\* C4: after a run of extract_and_organize_files without exception and without
\* name collisions, every file of the extracted tree named cds_from_genomic.fna
\* or *.gff is at cds_files/{P}_{family}.fna or gff_files/{P}_{family}.gff, P
\* the name of its immediate parent directory; the number of entries added to
\* the two output directories equals the number of matched files, and no
\* non-matching file is moved.
C4_MatchedFilesOrganized ==
    ( /\ extract_path = "completed"
      /\ ~Collision("cds_from_genomic.fna", ".fna")
      /\ ~Collision("*.gff", ".gff") )
    => /\ AllPlaced("cds_from_genomic.fna", ".fna", cds_dir)
       /\ AllPlaced("*.gff", ".gff", gff_dir)
       /\ Cardinality(AddedCds) + Cardinality(AddedGff)
            = Cardinality(MatchedFiles("cds_from_genomic.fna"))
              + Cardinality(MatchedFiles("*.gff"))
       /\ \A n \in AddedCds : ~n.dir /\ n.data \in MatchedFiles("cds_from_genomic.fna")
       /\ \A n \in AddedGff : ~n.dir /\ n.data \in MatchedFiles("*.gff")

C6_MissingArchive ==
    [][(pc = "extract" /\ ~zip_exists) =>
          /\ pc' = "tally"
          /\ extract_result' = "False"
          /\ UNCHANGED <<temp_exists, temp, cds_dir, gff_dir, zip_exists>>]_vars

C6_Witness ==
    /\ extract_path = "missing"
    /\ extract_result = "False"
    /\ ~temp_exists
    /\ cds_dir = StaleCds
    /\ pc = "done"

\* C7: when two matched files of one kind resolve to the same destination
\* name, then (the filesystem itself not failing) no error is raised, the
\* method returns True, and exactly one output entry of that name exists
\* afterwards, holding the content of the file moved last in scan order.
C7_LastWriteWins ==
    ( /\ ExtractorReturned
      /\ ~os_fault
      /\ Collision("cds_from_genomic.fna", ".fna") \/ Collision("*.gff", ".gff") )
    => /\ extract_path = "completed"
       /\ extract_result = "True"
       /\ LastWins("cds_from_genomic.fna", ".fna", cds_dir, cds_files)
       /\ LastWins("*.gff", ".gff", gff_dir, gff_files)

\* C8: any invocation failure of the tool and any malformed standard output
\* (text with the marker that is not JSON, JSON that is not an object with a
\* numeric record_count) makes get_available_species return the empty list,
\* and no exception reaches the caller.
C8_ProbeNeverRaises ==
    (Invoked("preview") /\ ProbeFailedOrMalformed) =>
        (available_species = <<>> /\ exc = "None" /\ success = "False")

\* C9: the steps of one run occur at most once each and in the order version
\* check, preview, download, extraction; the extractor runs only after a
\* download that returned a filename, and a failed download is not retried
\* and makes the run report failure.
C9_OnceInOrderNoRetry ==
    /\ IsPrefix(calls, <<"version", "preview", "download", "extract">>)
    /\ Invoked("extract") => zip_filename # "None"
    /\ DownloadFailed =>
         /\ pc \in {"tally", "main_result", "done"}
         /\ pc # "tally" => success = "False"
         /\ pc = "done" => exit_code = 1

C9_Witness ==
    /\ pc = "done"
    /\ DownloadFailed
    /\ calls = <<"version", "preview", "download">>
    /\ exit_code = 1

\* C10: an error raised inside extract_and_organize_files after the existence
\* check is caught: the method returns False, nothing propagates, and
\* download_family_data counts the taxon as failed; the witness shows that the
\* scratch directory, the archive and files already moved can then remain.
C10_ExtractionErrorCaught ==
    extract_path = "raised" =>
        /\ extract_result = "False"
        /\ exc = "None"
        /\ pc \in {"tally", "main_result", "done"}
        /\ success_count = 0
        /\ pc # "tally" => success = "False"
        /\ pc = "done" => exit_code = 1

C10_Witness ==
    /\ extract_path = "raised"
    /\ pc = "done"
    /\ exit_code = 1
    /\ temp_exists
    /\ temp # {}
    /\ zip_exists
    /\ AddedCds # {}

====
